---------------------------- MODULE Spec2Model ----------------------------
(***************************************************************************)
(* A model of cache-sqlite-lru-ttl (src/src/index.ts, lines 1-279): one    *)
(* SqliteCache instance over one table of one better-sqlite3 connection.   *)
(*                                                                         *)
(* The JavaScript event loop is modelled as it schedules this code:        *)
(*   - a public method runs synchronously up to its first await;           *)
(*   - `await this.db` resumes in a microtask, and microtasks run in FIFO  *)
(*     order (microQ) before any macrotask;                                *)
(*   - zlib callbacks (zlibQ), setImmediate callbacks (immediates) and     *)
(*     timers are macrotasks and run only when no microtask is pending;    *)
(*   - the caller may invoke a public method at any point.                 *)
(* Time is Date.now() in milliseconds (clock).                             *)
(***************************************************************************)
EXTENDS Integers, Sequences, FiniteSets, TLC

\* ------------------------------------------------------------------ bounds
MaxCalls == 3        \* public method calls in one behaviour
MaxTicks == 1        \* advances of the clock in one behaviour
MaxInflight == 2     \* calls and sweeps that have started and not finished

\* --------------------------------------------------------------- constants
COMPRESSION_MIN_LENGTH == 1024
DEBOUNCE_WAIT == 100
CHECK_INTERVAL == 1000

\* ------------------------------------------------------------------ inputs
Keys == {"a", "b"}
\* "s": a 200-byte buffer; "z": 10000 zero bytes; "r": 10000 random bytes
Values == {"s", "z", "r"}
NULL == <<>>                      \* SQL NULL / JavaScript undefined option
Some(x) == <<x>>
Ttls == {NULL, Some(20)}          \* opts.ttlMs
Steps == {20, 1000}               \* how far the clock may advance at once
Configs ==
  { [maxItems |-> NULL,    compress |-> NULL,       defaultTtlMs |-> NULL],
    [maxItems |-> Some(1), compress |-> Some(TRUE), defaultTtlMs |-> Some(20)] }

\* The arguments of the set calls. On key "a": every value, with opts.compress left
\* out or given against the instance's default. On the other keys: a small value
\* with and without a TTL.
SetArgs(c) ==
  { [key |-> "a", value |-> v, ttlMs |-> NULL, compress |-> f] :
      v \in Values, f \in {NULL, Some(c.compress = NULL)} }
  \cup
  { [key |-> k, value |-> "s", ttlMs |-> t, compress |-> NULL] :
      k \in Keys \ {"a"}, t \in Ttls }

Undefined == "undefined"
ClosedError == "Error: Cache is closed"
DbError == "TypeError: The database connection is not open"
InitError == "Error: initialization failed"
DecodeError == "Error: decode failed"

VARIABLES
  cfg,          \* this.configuration
  clock,        \* Date.now()
  table,        \* the rows of the cache table, by key
  dbState,      \* this.db: "open", "closed" (db.close() ran) or "failed"
  isClosed,     \* this.isClosed
  checkInterval,\* NULL when cleared, else Some(time the interval is next due)
  timeoutId,    \* debounce: NULL, else Some(time `later` is due)
  timestamp,    \* debounce: Date.now() of the latest call of the debounced function
  immediates,   \* setImmediate callbacks not yet run
  microQ,       \* continuations waiting on `await this.db`, FIFO
  zlibQ,        \* continuations waiting on gzip / gunzip
  last,         \* history: what the latest step finished, and the table before it
  written,      \* history: per key, the arguments of the set that wrote its row
  recent,       \* history: the keys of the table, least recently read or written first
  dirty,        \* history: a set was applied after the latest executed sweep
  ncalls,       \* calls made (under SpecLive: since the clock last moved)
  nticks,       \* advances of the clock
  faulted,      \* history: a sweep statement threw on the open connection
  inits,        \* history: how many times initSqliteCache ran for this instance
  tableNames,   \* SpecStore: the cacheTableName of each instance on one database file
  store         \* SpecStore: the tables of that database file, by name

vars == <<cfg, clock, table, dbState, isClosed, checkInterval, timeoutId,
          timestamp, immediates, microQ, zlibQ, last, written, recent, dirty,
          ncalls, nticks, faulted, inits, tableNames, store>>

\* the database file that several instances share
shared == <<tableNames, store>>

\* ------------------------------------------------------------- the codec
\* cbor.encode: a buffer that carries the value; its length depends on the value
cborEncode(v) == [fmt |-> "cbor", data |-> v]

\* zlib.gzip of a buffer
compress(buf) == [fmt |-> "gzip", data |-> buf.data]

\* buffer.length
Length(buf) ==
  IF buf.fmt = "cbor"
    THEN (IF buf.data = "s" THEN 203 ELSE 10003)
    ELSE (IF buf.data = "s" THEN 180 ELSE IF buf.data = "z" THEN 45 ELSE 10026)

\* zlib.gunzip: fails on a buffer that is no gzip stream
decompress(buf) ==
  IF buf.fmt = "gzip" THEN [ok |-> TRUE, buf |-> [fmt |-> "cbor", data |-> buf.data]]
                      ELSE [ok |-> FALSE, buf |-> buf]

\* cbor.decode: the value of a CBOR buffer; anything else does not decode to it
cborDecode(buf) == IF buf.fmt = "cbor" THEN buf.data ELSE DecodeError

now == clock

\* ------------------------------------------------- the prepared statements
Without(t, ks) == [k \in (DOMAIN t) \ ks |-> t[k]]

\* the WHERE clause with `expires >= @now`
getStatementHits_Inclusive(t, key, n) ==
  /\ key \in DOMAIN t
  /\ (t[key].expires = NULL \/ t[key].expires[1] >= n)

\* UPDATE OR IGNORE .. SET lastAccess = @now
\*   WHERE key = @key AND (expires > @now OR expires IS NULL) RETURNING value, compressed
getStatementHits(t, key, n) ==
  /\ key \in DOMAIN t
  /\ (t[key].expires = NULL \/ t[key].expires[1] > n)

\* an UPDATE whose WHERE clause lost the expiry test, with the test done afterwards
getStatement_TouchExpired(t, key, n) ==
  IF key \in DOMAIN t
    THEN [table |-> [t EXCEPT ![key].lastAccess = n],
          res |-> IF t[key].expires = NULL \/ t[key].expires[1] > n
                    THEN Some([value |-> t[key].value,
                               compressed |-> t[key].compressed])
                    ELSE NULL]
    ELSE [table |-> t, res |-> NULL]

getStatement(t, key, n) ==
  IF getStatementHits(t, key, n)
    THEN [table |-> [t EXCEPT ![key].lastAccess = n],
          res |-> Some([value |-> t[key].value, compressed |-> t[key].compressed])]
    ELSE [table |-> t, res |-> NULL]

\* an upsert that updates the value, expiry and lastAccess of a row that exists and
\* leaves its compressed flag
setStatement_FlagKept(t, key, value, expires, n, compressed) ==
  [k \in (DOMAIN t) \cup {key} |->
     IF k = key
       THEN [value |-> value, expires |-> expires, lastAccess |-> n,
             compressed |-> IF key \in DOMAIN t THEN t[key].compressed
                            ELSE compressed]
       ELSE t[k]]

\* an upsert that keeps the old expiry when the new one is NULL
setStatement_KeepExpiry(t, key, value, expires, n, compressed) ==
  [k \in (DOMAIN t) \cup {key} |->
     IF k = key
       THEN [value |-> value,
             expires |-> IF expires = NULL /\ key \in DOMAIN t
                           THEN t[key].expires ELSE expires,
             lastAccess |-> n, compressed |-> compressed]
       ELSE t[k]]

\* INSERT OR REPLACE INTO .. (key, value, expires, lastAccess, compressed)
setStatement(t, key, value, expires, n, compressed) ==
  [k \in (DOMAIN t) \cup {key} |->
     IF k = key
       THEN [value |-> value, expires |-> expires, lastAccess |-> n,
             compressed |-> compressed]
       ELSE t[k]]

\* a DELETE without its WHERE clause
deleteStatement_All(t, key) == [k \in {} |-> t[k]]

\* DELETE FROM .. WHERE key = @key
deleteStatement(t, key) == Without(t, {key})

\* DELETE FROM .. WHERE expires IS NOT NULL
clearStatement_ExpiringOnly(t) == Without(t, {k \in DOMAIN t : t[k].expires # NULL})

\* DELETE FROM ..
clearStatement(t) == Without(t, DOMAIN t)

\* DELETE FROM .. WHERE expires <= @now
cleanupExpiredStatement_Inclusive(t, n) ==
  Without(t, {k \in DOMAIN t : t[k].expires # NULL /\ t[k].expires[1] <= n})

\* DELETE FROM .. WHERE expires < @now
cleanupExpiredStatement(t, n) ==
  Without(t, {k \in DOMAIN t : t[k].expires # NULL /\ t[k].expires[1] < n})

\* the subquery without ORDER BY: any rows beyond the first maxItems
cleanupLruStatement_NoOrder(t, maxItems) ==
  LET m == Cardinality(DOMAIN t)
      n == IF m > maxItems THEN m - maxItems ELSE 0
  IN { Without(t, lru) : lru \in { s \in SUBSET (DOMAIN t) : Cardinality(s) = n } }

\* OFFSET @maxItems - 1
cleanupLruStatement_OffsetBelow(t, maxItems) ==
  LET m == Cardinality(DOMAIN t)
      n == IF m > maxItems - 1 THEN m - (maxItems - 1) ELSE 0
  IN { Without(t, lru) : lru \in
         { s \in SUBSET (DOMAIN t) :
             /\ Cardinality(s) = n
             /\ \A d \in s : \A k \in (DOMAIN t) \ s :
                  t[k].lastAccess >= t[d].lastAccess } }

\* OFFSET @maxItems + 1
cleanupLruStatement_OffByOne(t, maxItems) ==
  LET m == Cardinality(DOMAIN t)
      n == IF m > maxItems + 1 THEN m - (maxItems + 1) ELSE 0
  IN { [k \in (DOMAIN t) \ lru |-> t[k]] : lru \in
         { s \in SUBSET (DOMAIN t) :
             /\ Cardinality(s) = n
             /\ \A d \in s : \A k \in (DOMAIN t) \ s :
                  t[k].lastAccess >= t[d].lastAccess } }

\* ORDER BY lastAccess ASC
cleanupLruStatement_Ascending(t, maxItems) ==
  LET m == Cardinality(DOMAIN t)
      n == IF m > maxItems THEN m - maxItems ELSE 0
  IN { [k \in (DOMAIN t) \ lru |-> t[k]] : lru \in
         { s \in SUBSET (DOMAIN t) :
             /\ Cardinality(s) = n
             /\ \A d \in s : \A k \in (DOMAIN t) \ s :
                  t[k].lastAccess <= t[d].lastAccess } }

\* WITH lru AS (SELECT key FROM .. ORDER BY lastAccess DESC LIMIT -1 OFFSET @maxItems)
\* DELETE FROM .. WHERE key IN lru
\* The order among rows of equal lastAccess is not fixed: every outcome is given.
cleanupLruStatement(t, maxItems) ==
  LET m == Cardinality(DOMAIN t)
      n == IF m > maxItems THEN m - maxItems ELSE 0
  IN { Without(t, lru) : lru \in
         { s \in SUBSET (DOMAIN t) :
             /\ Cardinality(s) = n
             /\ \A d \in s : \A k \in (DOMAIN t) \ s :
                  t[k].lastAccess >= t[d].lastAccess } }

\* cleanupLruStatement.run before cleanupExpiredStatement.run
sweepCycle_LruFirst(t, n, maxItems) ==
  IF maxItems # NULL
    THEN { cleanupExpiredStatement(u, n) : u \in cleanupLruStatement(t, maxItems[1]) }
    ELSE { cleanupExpiredStatement(t, n) }

\* db.cleanupExpiredStatement.run({ now: now() });
\* if (this.configuration.maxItems) db.cleanupLruStatement.run({ maxItems })
sweepCycle(t, n, maxItems) ==
  IF maxItems # NULL
    THEN cleanupLruStatement(cleanupExpiredStatement(t, n), maxItems[1])
    ELSE { cleanupExpiredStatement(t, n) }

\* DROP TABLE before CREATE TABLE
initSqliteCache_Recreate(file) == <<>>

\* CREATE TABLE IF NOT EXISTS .. (key TEXT PRIMARY KEY, value, expires, lastAccess,
\* compressed) and CREATE [UNIQUE] INDEX IF NOT EXISTS ..: a table the database file
\* holds already (Some(rows)) keeps its rows, a new one has none
initSqliteCache(file) == IF file = NULL THEN <<>> ELSE file[1]

\* ------------------------------------------------------------------ state
\* What a step finished: the call or sweep (op, key), what it returned or threw
\* (result), what the applied writes say a get returns (want), whether it executed
\* a storage statement (stmt), and the table and the order of use before the step.
Done(op, key, result, want, stmt) ==
  [op |-> op, key |-> key, result |-> result, want |-> want, stmt |-> stmt,
   pre |-> table, order |-> recent]

\* The step finished no call and no sweep.
NoOutcome ==
  [op |-> "none", key |-> "", result |-> "", want |-> "", stmt |-> FALSE,
   pre |-> <<>>, order |-> <<>>]

\* A continuation: the locals a call keeps across an await. `ttlMs` and `flag` are
\* opts.ttlMs and opts.compress as the caller gave them, `at` is Date.now() when the
\* call was made.
Cont(op, key, buf, ttlMs, flag, expires, compression, want, at) ==
  [op |-> op, key |-> key, buf |-> buf, ttlMs |-> ttlMs, flag |-> flag,
   expires |-> expires, compression |-> compression, want |-> want, at |-> at]

NoBuf == [fmt |-> "none", data |-> ""]

Plain(op, key) == Cont(op, key, NoBuf, NULL, NULL, NULL, FALSE, "", 0)

RemoveAt(q, i) == [j \in 1..(Len(q) - 1) |-> IF j < i THEN q[j] ELSE q[j + 1]]

\* What the applied writes say get(k) returns at time n: the value of the set that
\* wrote the row, unless the row was deleted, cleared or swept, or has expired.
Want(k, n) ==
  IF written[k] # NULL /\ (written[k][1].expires = NULL \/ written[k][1].expires[1] > n)
    THEN written[k][1].v
    ELSE Undefined

Forget(w, t) == [k \in Keys |-> IF k \in DOMAIN t THEN w[k] ELSE NULL]

Filter(q, S) ==
  LET F[i \in 0..Len(q)] ==
        IF i = 0 THEN <<>>
        ELSE IF q[i] \in S THEN Append(F[i - 1], q[i]) ELSE F[i - 1]
  IN F[Len(q)]

\* the order of use after key k was read or written
Touch(q, k) == Append(Filter(q, Keys \ {k}), k)

\* new SqliteCache(configuration): initSqliteCache runs in the constructor, once,
\* up to its return or throw, and this.db is its promise; `outcome` is "open" when
\* it returned and "failed" when it threw (new Database on a bad path)
Constructed(outcome) ==
  /\ cfg \in Configs
  /\ clock = 0
  /\ table = initSqliteCache(NULL)
  /\ dbState = outcome
  /\ inits = 1
  /\ faulted = FALSE
  /\ isClosed = FALSE
  /\ checkInterval = Some(CHECK_INTERVAL)
  /\ timeoutId = NULL
  /\ timestamp = 0
  /\ immediates = 0
  /\ microQ = <<>>
  /\ zlibQ = <<>>
  /\ last = NoOutcome
  /\ written = [k \in Keys |-> NULL]
  /\ recent = <<>>
  /\ dirty = FALSE
  /\ ncalls = 0
  /\ nticks = 0

InitCache == Constructed("open")

\* one instance, and no other table in its database file
Init ==
  /\ InitCache
  /\ tableNames = <<>>
  /\ store = <<>>

\* ------------------------------------------------- the debounced sweep
\* a sweep without the closed check
closedReturn_Never == FALSE

\* if (this.isClosed) return, first in the debounced function
closedReturn == isClosed

\* debounce(fn, 100, {immediate: true}), called: the call is stamped, the timer is
\* armed unless one is pending, and fn runs only when none was pending. fn itself
\* returns at once when the cache is closed, and otherwise awaits this.db.
checkForExpiredItems ==
  /\ timestamp' = now
  /\ timeoutId' = IF timeoutId = NULL THEN Some(now + DEBOUNCE_WAIT) ELSE timeoutId
  /\ microQ' = IF timeoutId = NULL /\ ~closedReturn
                 THEN Append(microQ, Plain("sweep", ""))
                 ELSE microQ

\* What a call of the debounced function by `source` (the interval or a setImmediate
\* callback) came to: "coalesced" when the debounce timer was pending, "closed" when
\* fn returned at once, "started" when fn went on to await this.db. `quiet` says
\* that no call was made in the DEBOUNCE_WAIT ms before this one: the timer stays
\* pending for at least that long after a call.
Requested(source) ==
  [op |-> "request", key |-> source,
   result |-> IF timeoutId # NULL THEN "coalesced"
              ELSE IF closedReturn THEN "closed" ELSE "started",
   want |-> "", stmt |-> FALSE, pre |-> table, order |-> recent,
   quiet |-> (timeoutId = NULL \/ now - timestamp >= DEBOUNCE_WAIT)]

\* debounce's timer callback: re-armed while calls keep arriving within the wait.
\* Timers that are due run in the order of their due times.
later ==
  /\ timeoutId # NULL
  /\ now >= timeoutId[1]
  /\ checkInterval # NULL => timeoutId[1] <= checkInterval[1]
  /\ microQ = <<>>
  /\ LET elapsed == now - timestamp
     IN timeoutId' = IF elapsed < DEBOUNCE_WAIT /\ elapsed >= 0
                       THEN Some(now + (DEBOUNCE_WAIT - elapsed))
                       ELSE NULL
  /\ last' = NoOutcome
  /\ UNCHANGED <<shared, faulted, inits, cfg, clock, table, dbState, isClosed, checkInterval, timestamp,
                 immediates, microQ, zlibQ, written, recent, dirty, ncalls, nticks>>

\* setInterval(this.checkForExpiredItems, 1000) fires
IntervalFire ==
  /\ checkInterval # NULL
  /\ now >= checkInterval[1]
  /\ timeoutId # NULL => checkInterval[1] <= timeoutId[1]
  /\ microQ = <<>>
  /\ checkInterval' = Some(now + CHECK_INTERVAL)
  /\ checkForExpiredItems
  /\ last' = Requested("interval")
  /\ UNCHANGED <<shared, faulted, inits, cfg, clock, table, dbState, isClosed, immediates, zlibQ,
                 written, recent, dirty, ncalls, nticks>>

\* a callback of setImmediate(this.checkForExpiredItems.bind(this)) runs
Immediate ==
  /\ immediates > 0
  /\ microQ = <<>>
  /\ immediates' = immediates - 1
  /\ checkForExpiredItems
  /\ last' = Requested("immediate")
  /\ UNCHANGED <<shared, faulted, inits, cfg, clock, table, dbState, isClosed, checkInterval, zlibQ,
                 written, recent, dirty, ncalls, nticks>>

\* statements that run whatever the state of the connection
connected_Always == TRUE

\* `await this.db` gave a database and db.close() has not run on it: a statement
\* runs. On a closed connection better-sqlite3 throws instead.
connected == dbState = "open"

\* `await initSqliteCache(this.configuration)` in the operation itself
awaitDb_Lazy(runs) == runs + 1

\* `await this.db`: the promise that the constructor stored. The operation goes on
\* in a later microtask and the await runs initSqliteCache no further time.
awaitDb(runs) == runs

\* the body of the sweep after `await this.db`, inside try/catch
DbSweep ==
  /\ microQ # <<>>
  /\ Head(microQ).op = "sweep"
  /\ microQ' = Tail(microQ)
  /\ inits' = awaitDb(inits)
  /\ IF connected
       THEN /\ table' \in sweepCycle(table, now, cfg.maxItems)
            /\ last' = Done("sweep", "", "ok", "", TRUE)
            /\ dirty' = FALSE
       ELSE /\ table' = table
            /\ last' = Done("sweep", "", "caught", "", FALSE)
            /\ dirty' = dirty
  /\ written' = Forget(written, table')
  /\ recent' = Filter(recent, DOMAIN table')
  /\ UNCHANGED <<shared, faulted, cfg, clock, dbState, isClosed, checkInterval, timeoutId, timestamp,
                 immediates, zlibQ, ncalls, nticks>>

\* a method without the closed check
closedCheck_Never == FALSE

\* ------------------------------------------------------------------- get
\* if (this.isClosed) throw new Error("Cache is closed"), first in get, set,
\* delete and clear
closedCheck == isClosed

\* every failure reported as a closed connection
DbFailure_Generic == DbError

\* what a statement throws when this.db is not an open connection
DbFailure == IF dbState = "failed" THEN InitError ELSE DbError

Get(key) ==
  /\ IF closedCheck
       THEN /\ last' = Done("get", key, ClosedError, "", FALSE)
            /\ microQ' = microQ
       ELSE /\ microQ' = Append(microQ, Plain("get", key))
            /\ last' = NoOutcome
  /\ UNCHANGED <<shared, faulted, inits, cfg, clock, table, dbState, isClosed, checkInterval, timeoutId,
                 timestamp, immediates, zlibQ, written, recent, dirty, nticks>>

\* a get that never gunzips
shouldDecompress_Never(res) == FALSE

\* a get that gunzips when the instance compresses
shouldDecompress_BySetting(res) == cfg.compress # NULL /\ cfg.compress[1]

\* if (res.compressed) value = await decompress(value)
shouldDecompress(res) == res.compressed = 1

\* get after `await this.db`: the statement, then decode, or gunzip first
DbGet ==
  /\ microQ # <<>>
  /\ Head(microQ).op = "get"
  /\ microQ' = Tail(microQ)
  /\ inits' = awaitDb(inits)
  /\ LET c == Head(microQ)
         want == Want(c.key, now)
         r == getStatement(table, c.key, now)
     IN IF ~connected
          THEN /\ last' = Done("get", c.key, DbFailure, want, FALSE)
               /\ UNCHANGED <<table, zlibQ, recent>>
          ELSE /\ table' = r.table
               /\ recent' = IF r.res # NULL THEN Touch(recent, c.key) ELSE recent
               /\ IF r.res = NULL
                    THEN /\ last' = Done("get", c.key, Undefined, want, TRUE)
                         /\ zlibQ' = zlibQ
                    ELSE IF shouldDecompress(r.res[1])
                      THEN /\ zlibQ' = Append(zlibQ,
                                  Cont("gunzip", c.key, r.res[1].value, NULL, NULL,
                                       NULL, TRUE, want, now))
                           /\ last' = Done("getting", c.key, "", want, TRUE)
                      ELSE /\ last' = Done("get", c.key, cborDecode(r.res[1].value),
                                           want, TRUE)
                           /\ zlibQ' = zlibQ
  /\ UNCHANGED <<shared, faulted, cfg, clock, dbState, isClosed, checkInterval, timeoutId, timestamp,
                 immediates, written, dirty, ncalls, nticks>>

\* get after `await decompress(value)`: return cbor.decode(value)
GunzipDone(i) ==
  /\ microQ = <<>>
  /\ i \in 1..Len(zlibQ)
  /\ zlibQ[i].op = "gunzip"
  /\ zlibQ' = RemoveAt(zlibQ, i)
  /\ LET c == zlibQ[i]
         d == decompress(c.buf)
     IN last' = Done("get", c.key,
                     IF d.ok THEN cborDecode(d.buf) ELSE DecodeError, c.want, FALSE)
  /\ UNCHANGED <<shared, faulted, inits, cfg, clock, table, dbState, isClosed, checkInterval, timeoutId,
                 timestamp, immediates, microQ, written, recent, dirty, ncalls,
                 nticks>>

\* ------------------------------------------------------------------- set
\* opts.ttlMs ?? this.configuration.defaultTtlMs
EffectiveTtl_Default(ttlMs) == IF ttlMs # NULL THEN ttlMs ELSE cfg.defaultTtlMs

\* const ttl = opts.ttlMs ?? opts.ttlMs
EffectiveTtl(ttlMs) == IF ttlMs # NULL THEN ttlMs ELSE ttlMs

\* opts.compress ?? this.configuration.compress ?? false
EffectiveCompression(flag) ==
  IF flag # NULL THEN flag[1]
  ELSE IF cfg.compress # NULL THEN cfg.compress[1] ELSE FALSE

\* gzip whenever compression is asked for, whatever the length
shouldCompress_NoThreshold(compression, valueBuffer) == compression

\* compression && valueBuffer.length >= COMPRESSION_MIN_LENGTH
shouldCompress(compression, valueBuffer) ==
  compression /\ Length(valueBuffer) >= COMPRESSION_MIN_LENGTH

Set(key, v, ttlMs, flag) ==
  /\ IF closedCheck
       THEN /\ last' = Done("set", key, ClosedError, "", FALSE)
            /\ UNCHANGED <<microQ, zlibQ>>
       ELSE LET ttl == EffectiveTtl(ttlMs)
                expires == IF ttl # NULL THEN Some(now + ttl[1]) ELSE NULL
                valueBuffer == cborEncode(v)
            IN /\ last' = NoOutcome
               /\ IF shouldCompress(EffectiveCompression(flag), valueBuffer)
                    THEN /\ zlibQ' = Append(zlibQ,
                                Cont("gzip", key, valueBuffer, ttlMs, flag, expires,
                                     TRUE, v, now))
                         /\ microQ' = microQ
                    ELSE /\ microQ' = Append(microQ,
                                Cont("set", key, valueBuffer, ttlMs, flag, expires,
                                     FALSE, v, now))
                         /\ zlibQ' = zlibQ
  /\ UNCHANGED <<shared, faulted, inits, cfg, clock, table, dbState, isClosed, checkInterval, timeoutId,
                 timestamp, immediates, written, recent, dirty, nticks>>

\* set after `await compress(valueBuffer)`: the compressed buffer is kept only
\* when it is shorter
GzipDone(i) ==
  /\ microQ = <<>>
  /\ i \in 1..Len(zlibQ)
  /\ zlibQ[i].op = "gzip"
  /\ zlibQ' = RemoveAt(zlibQ, i)
  /\ LET c == zlibQ[i]
         compressed == compress(c.buf)
     IN microQ' = Append(microQ,
          IF Length(compressed) >= Length(c.buf)
            THEN [c EXCEPT !.op = "set", !.compression = FALSE]
            ELSE [c EXCEPT !.op = "set", !.buf = compressed])
  /\ last' = NoOutcome
  /\ UNCHANGED <<shared, faulted, inits, cfg, clock, table, dbState, isClosed, checkInterval, timeoutId,
                 timestamp, immediates, written, recent, dirty, ncalls, nticks>>

\* a set that schedules the sweep twice
setImmediate_Twice(pending) == pending + 2

\* setImmediate(this.checkForExpiredItems.bind(this)): one more callback pending
setImmediate(pending) == pending + 1

\* set after `await this.db`: the statement, then setImmediate(sweep)
DbSet ==
  /\ microQ # <<>>
  /\ Head(microQ).op = "set"
  /\ microQ' = Tail(microQ)
  /\ inits' = awaitDb(inits)
  /\ LET c == Head(microQ)
     IN IF ~connected
          THEN /\ last' = Done("set", c.key, DbFailure, "", FALSE)
               /\ UNCHANGED <<table, immediates, written, recent, dirty>>
          ELSE /\ table' = setStatement(table, c.key, c.buf, c.expires, now,
                                        IF c.compression THEN 1 ELSE 0)
               /\ immediates' = setImmediate(immediates)
               /\ written' = [written EXCEPT ![c.key] =
                                Some([v |-> c.want, ttlMs |-> c.ttlMs,
                                      compress |-> c.flag,
                                      expires |-> IF c.ttlMs # NULL
                                                    THEN Some(c.at + c.ttlMs[1])
                                                    ELSE NULL,
                                      at |-> c.at, applied |-> now])]
               /\ recent' = Touch(recent, c.key)
               /\ dirty' = TRUE
               /\ last' = Done("set", c.key, "ok", "", TRUE)
  /\ UNCHANGED <<shared, faulted, cfg, clock, dbState, isClosed, checkInterval, timeoutId, timestamp,
                 zlibQ, ncalls, nticks>>

\* ---------------------------------------------------------- delete, clear
Delete(key) ==
  /\ IF closedCheck
       THEN /\ last' = Done("delete", key, ClosedError, "", FALSE)
            /\ microQ' = microQ
       ELSE /\ microQ' = Append(microQ, Plain("delete", key))
            /\ last' = NoOutcome
  /\ UNCHANGED <<shared, faulted, inits, cfg, clock, table, dbState, isClosed, checkInterval, timeoutId,
                 timestamp, immediates, zlibQ, written, recent, dirty, nticks>>

DbDelete ==
  /\ microQ # <<>>
  /\ Head(microQ).op = "delete"
  /\ microQ' = Tail(microQ)
  /\ inits' = awaitDb(inits)
  /\ LET c == Head(microQ)
     IN IF ~connected
          THEN /\ last' = Done("delete", c.key, DbFailure, "", FALSE)
               /\ UNCHANGED <<table, written, recent>>
          ELSE /\ table' = deleteStatement(table, c.key)
               /\ written' = Forget(written, table')
               /\ recent' = Filter(recent, DOMAIN table')
               /\ last' = Done("delete", c.key, "ok", "", TRUE)
  /\ UNCHANGED <<shared, faulted, cfg, clock, dbState, isClosed, checkInterval, timeoutId, timestamp,
                 immediates, zlibQ, dirty, ncalls, nticks>>

Clear ==
  /\ IF closedCheck
       THEN /\ last' = Done("clear", "", ClosedError, "", FALSE)
            /\ microQ' = microQ
       ELSE /\ microQ' = Append(microQ, Plain("clear", ""))
            /\ last' = NoOutcome
  /\ UNCHANGED <<shared, faulted, inits, cfg, clock, table, dbState, isClosed, checkInterval, timeoutId,
                 timestamp, immediates, zlibQ, written, recent, dirty, nticks>>

DbClear ==
  /\ microQ # <<>>
  /\ Head(microQ).op = "clear"
  /\ microQ' = Tail(microQ)
  /\ inits' = awaitDb(inits)
  /\ IF ~connected
       THEN /\ last' = Done("clear", "", DbFailure, "", FALSE)
            /\ UNCHANGED <<table, written, recent>>
       ELSE /\ table' = clearStatement(table)
            /\ written' = Forget(written, table')
            /\ recent' = Filter(recent, DOMAIN table')
            /\ last' = Done("clear", "", "ok", "", TRUE)
  /\ UNCHANGED <<shared, faulted, cfg, clock, dbState, isClosed, checkInterval, timeoutId, timestamp,
                 immediates, zlibQ, dirty, ncalls, nticks>>

\* ----------------------------------------------------------------- close
\* a close() that leaves the interval running
clearInterval_Forgotten(timer) == timer

\* clearInterval(this.checkInterval)
clearInterval(timer) == NULL

\* a close() that sets the flag before it awaits this.db
closedAfter_Early(flag, released) == TRUE

\* this.isClosed = true, reached only when `await this.db` and db.close() returned
closedAfter(flag, released) == IF released THEN TRUE ELSE flag

\* clearInterval(this.checkInterval), then `await this.db`
Close ==
  /\ checkInterval' = clearInterval(checkInterval)
  /\ microQ' = Append(microQ, Plain("close", ""))
  /\ last' = NoOutcome
  /\ UNCHANGED <<shared, faulted, inits, cfg, clock, table, dbState, isClosed, timeoutId, timestamp,
                 immediates, zlibQ, written, recent, dirty, nticks>>

\* close after `await this.db`: db.close(); this.isClosed = true
DbClose ==
  /\ microQ # <<>>
  /\ Head(microQ).op = "close"
  /\ microQ' = Tail(microQ)
  /\ inits' = awaitDb(inits)
  /\ isClosed' = closedAfter(isClosed, dbState # "failed")
  /\ IF dbState = "failed"
       THEN /\ last' = Done("close", "", InitError, "", FALSE)
            /\ UNCHANGED dbState
       ELSE /\ dbState' = "closed"
            /\ last' = Done("close", "", "ok", "", FALSE)
  /\ UNCHANGED <<shared, faulted, cfg, clock, table, checkInterval, timeoutId, timestamp, immediates,
                 zlibQ, written, recent, dirty, ncalls, nticks>>

\* ---------------------------------------------------------------- reopen
\* The configurations of a new instance on the same database file and table: the
\* compress setting may differ from the one the rows were written under.
Reconfigured(c) == { [c EXCEPT !.compress = f] : f \in {NULL, Some(TRUE)} }

\* new SqliteCache(c) on the database file of an instance that was closed and has
\* nothing left to run: the constructor initializes the database and starts the
\* interval; the new instance has its own debounce state.
Reopen(c) ==
  /\ isClosed /\ dbState = "closed"
  /\ microQ = <<>> /\ zlibQ = <<>> /\ immediates = 0
  /\ cfg' = c
  /\ table' = initSqliteCache(Some(table))
  /\ dbState' = "open"
  /\ inits' = 1
  /\ isClosed' = FALSE
  /\ checkInterval' = Some(now + CHECK_INTERVAL)
  /\ timeoutId' = NULL
  /\ timestamp' = 0
  /\ last' = Done("open", "", "ok", "", FALSE)
  /\ UNCHANGED <<shared, faulted, clock, immediates, microQ, zlibQ, written, recent, dirty,
                 ncalls, nticks>>

\* ------------------------------------------------------------------ time
\* Date.now() advances between tasks
Tick(d) ==
  /\ microQ = <<>>
  /\ clock' = clock + d
  /\ last' = NoOutcome
  /\ UNCHANGED <<shared, faulted, inits, cfg, table, dbState, isClosed, checkInterval, timeoutId, timestamp,
                 immediates, microQ, zlibQ, written, recent, dirty, ncalls>>

\* ------------------------------------------------------- the whole program
Inflight == Len(microQ) + Len(zlibQ)

\* the caller calls a public method
Call(A) ==
  /\ ncalls < MaxCalls
  /\ Inflight < MaxInflight
  /\ ncalls' = ncalls + 1
  /\ A

Advance(d) ==
  /\ nticks < MaxTicks
  /\ nticks' = nticks + 1
  /\ Tick(d)

Next ==
  \/ \E k \in Keys : Call(Get(k))
  \/ \E s \in SetArgs(cfg) : Call(Set(s.key, s.value, s.ttlMs, s.compress))
  \/ \E k \in Keys : Call(Delete(k))
  \/ Call(Clear)
  \/ Call(Close)
  \/ \E c \in Reconfigured(cfg) : Reopen(c)
  \/ DbGet
  \/ DbSet
  \/ DbDelete
  \/ DbClear
  \/ DbClose
  \/ DbSweep
  \/ \E i \in 1..MaxInflight : GzipDone(i)
  \/ \E i \in 1..MaxInflight : GunzipDone(i)
  \/ Immediate
  \/ IntervalFire
  \/ later
  \/ \E d \in Steps : Advance(d)

Spec == Init /\ [][Next]_vars

\* ------------------------------- the program whose sweep statements may throw
\* a sweep whose rejection nothing catches: the process ends and no timer or
\* callback of the instance runs again
afterSweepError_Fatal(pending) == [interval |-> NULL, timeout |-> NULL, immediates |-> 0]

\* catch (ex) { console.error(..) }: the error ends this sweep and nothing else;
\* `pending` is what the instance has scheduled
afterSweepError(pending) == pending

\* The table a sweep leaves when one of its statements throws on the open
\* connection (the database is locked by another connection, the disk is full):
\* the statement that threw changed nothing, and cleanupLruStatement comes after
\* cleanupExpiredStatement.
sweepFault(t, n, maxItems) ==
  IF maxItems # NULL THEN {t, cleanupExpiredStatement(t, n)} ELSE {t}

\* the body of the sweep after `await this.db` when a statement throws: the catch
DbSweepFault ==
  /\ microQ # <<>>
  /\ Head(microQ).op = "sweep"
  /\ connected
  /\ microQ' = Tail(microQ)
  /\ inits' = awaitDb(inits)
  /\ table' \in sweepFault(table, now, cfg.maxItems)
  /\ last' = Done("sweep", "", "caught", "", table' # table)
  /\ written' = Forget(written, table')
  /\ recent' = Filter(recent, DOMAIN table')
  /\ faulted' = TRUE
  /\ LET after == afterSweepError([interval |-> checkInterval, timeout |-> timeoutId,
                                   immediates |-> immediates])
     IN /\ checkInterval' = after.interval
        /\ timeoutId' = after.timeout
        /\ immediates' = after.immediates
  /\ UNCHANGED <<shared, cfg, clock, dbState, isClosed, timestamp, zlibQ, dirty,
                 ncalls, nticks>>

NextFault ==
  \/ Next
  \/ DbSweepFault

SpecFault == Init /\ [][NextFault]_vars

\* ------------------------------------- the program whose database may fail
\* new Database(configuration.database) opens the file or throws
InitOutcomes == {"open", "failed"}

\* the instance after construction, whatever came of its initialization
InitGate ==
  /\ \E outcome \in InitOutcomes : Constructed(outcome)
  /\ tableNames = <<>>
  /\ store = <<>>

SpecInit == InitGate /\ [][Next]_vars

\* ------------------------------------------- the program under fair timers
\* The same cache with a capacity, a caller that only sets small values without
\* options, and no bound on the number of calls or on time. So that time can run on
\* for ever in finitely many states, the clock stands still and every stored time
\* moves into the past instead. A time that the code only compares with Date.now()
\* stops moving once the comparison is decided; the lastAccess values, which the code
\* compares only with one another, keep their order and their ties.
StepsLive == {50}                 \* how far time moves at once

Past(x, d, floor) == IF x - d < floor THEN floor ELSE x - d

PastOpt(x, d, floor) == IF x = NULL THEN NULL ELSE Some(Past(x[1], d, floor))

\* how many distinct lastAccess values of the table are later than x
Later(t, x) == Cardinality({t[j].lastAccess : j \in DOMAIN t} \cap ((x + 1)..now))

SetArgsLive ==
  { s \in SetArgs(cfg) : s.value = "s" /\ s.ttlMs = NULL /\ s.compress = NULL }

InitLive == Init /\ cfg.maxItems # NULL

\* a timer or a setImmediate callback is due: the event loop runs it before
\* Date.now() moves on
Due ==
  \/ immediates > 0
  \/ timeoutId # NULL /\ timeoutId[1] <= now
  \/ checkInterval # NULL /\ checkInterval[1] <= now

\* d milliseconds pass, and no timer is passed over
TickLive(d) ==
  /\ microQ = <<>> /\ zlibQ = <<>>
  /\ ~Due
  /\ timeoutId # NULL => now + d <= timeoutId[1]
  /\ checkInterval # NULL => now + d <= checkInterval[1]
  /\ timeoutId' = PastOpt(timeoutId, d, now)
  /\ checkInterval' = PastOpt(checkInterval, d, now)
  /\ timestamp' = Past(timestamp, d, now - DEBOUNCE_WAIT)
  /\ table' = [k \in DOMAIN table |->
                 [table[k] EXCEPT !.lastAccess = now - 1 - Later(table, @),
                                  !.expires = PastOpt(@, d, now - 1)]]
  /\ written' = [k \in Keys |->
                   IF written[k] = NULL THEN NULL
                   ELSE Some([written[k][1] EXCEPT
                                !.at = now - 1, !.applied = now - 1,
                                !.expires = PastOpt(@, d, now - 1)])]
  /\ last' = NoOutcome
  /\ ncalls' = 0
  /\ UNCHANGED <<shared, faulted, inits, cfg, clock, dbState, isClosed, immediates, microQ, zlibQ, recent,
                 dirty, nticks>>

\* the caller calls set: at most MaxCalls times before the clock moves again, and
\* with fewer than MaxInflight sets and callbacks pending
CallLive(A) ==
  /\ ncalls < MaxCalls
  /\ Inflight + immediates < MaxInflight
  /\ ncalls' = ncalls + 1
  /\ A

NextLive ==
  \/ \E s \in SetArgsLive : CallLive(Set(s.key, s.value, s.ttlMs, s.compress))
  \/ DbSet
  \/ DbSweep
  \/ Immediate
  \/ IntervalFire
  \/ later
  \/ \E d \in StepsLive : TickLive(d)

\* The event loop runs every continuation, every callback that is ready and every
\* timer that is due, and time passes. The caller is under no obligation.
SpecLive ==
  /\ InitLive
  /\ [][NextLive]_vars
  /\ WF_vars(DbSet)
  /\ WF_vars(DbSweep)
  /\ SF_vars(Immediate)
  /\ SF_vars(IntervalFire)
  /\ SF_vars(later)
  /\ SF_vars(\E d \in StepsLive : TickLive(d))

\* The same program and event loop with a caller that may also call close().
NextTimer ==
  \/ NextLive
  \/ CallLive(Close)
  \/ DbClose

SpecTimer ==
  /\ InitLive
  /\ [][NextTimer]_vars
  /\ WF_vars(DbSet)
  /\ WF_vars(DbSweep)
  /\ WF_vars(DbClose)
  /\ SF_vars(Immediate)
  /\ SF_vars(IntervalFire)
  /\ SF_vars(later)
  /\ SF_vars(\E d \in StepsLive : TickLive(d))


\* --------------------------------------- several instances on one database
\* Instances with their own cacheTableName on one database file. Each statement runs
\* by itself on the connection, so an instance is followed here statement by
\* statement: the text of each of its statements names escapeIdentifier(cacheTableName),
\* and SQLite reads that text back to find the table.
MaxNameLen == 2      \* characters of a table name

Quote == "\""
NameChars == {"c", "C", Quote}
TableNames == UNION { [1..n -> NameChars] : n \in 1..MaxNameLen }
Instances == {1, 2}

\* identifier.replace(/"/g, '""')
RECURSIVE replaceQuotes(_)
replaceQuotes(identifier) ==
  IF identifier = <<>> THEN <<>>
  ELSE (IF Head(identifier) = Quote THEN <<Quote, Quote>> ELSE <<Head(identifier)>>)
         \o replaceQuotes(Tail(identifier))

\* the identifier between quotes as it stands
escapeIdentifier_NoDoubling(identifier) == <<Quote>> \o identifier \o <<Quote>>

\* `"${identifier.replace(/"/g, '""')}"`
escapeIdentifier(identifier) == <<Quote>> \o replaceQuotes(identifier) \o <<Quote>>

\* SQLite reading a quoted identifier from position i of a statement's text: two
\* quotes stand for one, a single quote ends the identifier, and the end of the
\* text before that is an error
RECURSIVE readQuoted(_, _, _)
readQuoted(text, i, name) ==
  IF i > Len(text) THEN [ok |-> FALSE, name |-> name, rest |-> <<>>]
  ELSE IF text[i] # Quote THEN readQuoted(text, i + 1, Append(name, text[i]))
  ELSE IF i < Len(text) /\ text[i + 1] = Quote
         THEN readQuoted(text, i + 2, Append(name, Quote))
         ELSE [ok |-> TRUE, name |-> name, rest |-> SubSeq(text, i + 1, Len(text))]

\* the table name SQLite takes from ${escapedTableName} in a statement, or NULL when
\* the statement does not parse with it
parsedTableName(escapedTableName) ==
  LET id == IF escapedTableName # <<>> /\ escapedTableName[1] = Quote
              THEN readQuoted(escapedTableName, 2, <<>>)
              ELSE [ok |-> FALSE, name |-> <<>>, rest |-> <<>>]
  IN IF id.ok /\ id.rest = <<>> THEN Some(id.name) ELSE NULL

\* SQLite compares table names without regard to the case of ASCII letters
foldCase(name) == [i \in 1..Len(name) |-> IF name[i] = "C" THEN "c" ELSE name[i]]

\* the table of database db that a parsed name stands for, if there is one
findTable(db, name) ==
  IF name = NULL THEN {}
  ELSE {n \in DOMAIN db : foldCase(n) = foldCase(name[1])}

\* a statement that names the default table whatever the configuration
addressed_Default(i) == findTable(store, Some(<<"c">>))

\* the table that the statements of instance i address: escapedTableName is
\* escapeIdentifier(configuration.cacheTableName)
addressed(i) == findTable(store, parsedTableName(escapeIdentifier(tableNames[i])))

\* CREATE TABLE IF NOT EXISTS ${escapedTableName} (..) on database db
createTable(db, escapedTableName) ==
  LET name == parsedTableName(escapedTableName)
  IN IF name = NULL \/ findTable(db, name) # {} THEN db
     ELSE [n \in (DOMAIN db) \cup {name[1]} |->
             IF n \in DOMAIN db THEN db[n] ELSE initSqliteCache(NULL)]

\* the columns that initSqliteCache creates an index on; each index is named
\* after its column
IndexColumns == {"key", "expires", "lastAccess"}

\* CREATE [UNIQUE] INDEX IF NOT EXISTS <column> ON ${escapedTableName} (<column>) for
\* each column, on database db with the indexes ix: index names belong to the
\* database, not to a table, so a name that is taken, by whatever table, is skipped
createIndexes(ix, db, escapedTableName) ==
  ix \cup { [name |-> c, tbl |-> n, column |-> c, unique |-> (c = "key")] :
              c \in { col \in IndexColumns : \A x \in ix : x.name # col },
              n \in findTable(db, parsedTableName(escapedTableName)) }

\* the indexes of the database file after the two instances were constructed, one
\* after the other
indexes ==
  LET db1 == createTable(<<>>, escapeIdentifier(tableNames[1]))
      ix1 == createIndexes({}, db1, escapeIdentifier(tableNames[1]))
      db2 == createTable(db1, escapeIdentifier(tableNames[2]))
  IN createIndexes(ix1, db2, escapeIdentifier(tableNames[2]))

\* table n has an index on column c: one that CREATE INDEX made, or the one that
\* comes with key TEXT PRIMARY KEY
Indexed(n, c) ==
  \/ c = "key" /\ n \in DOMAIN store
  \/ \E x \in indexes : x.tbl = n /\ x.column = c

\* two instances were constructed, one after the other, on a new database file
InitStore ==
  /\ InitCache
  /\ cfg.maxItems # NULL
  /\ tableNames \in { names \in [Instances -> TableNames] : names[1] # names[2] }
  /\ store = createTable(createTable(<<>>, escapeIdentifier(tableNames[1])),
                         escapeIdentifier(tableNames[2]))

\* What a statement of instance i finished: as Done, with the database before it
StoreDone(i, op, key, result) ==
  [op |-> op, key |-> key, result |-> result, want |-> "", stmt |-> TRUE,
   pre |-> store, order |-> <<>>, by |-> i]

\* instance i runs a statement: rows[n] are the tables it may leave of table n and
\* result[n] is what the method returns; without a table the statement throws
Run(i, op, key, rows, result) ==
  /\ IF addressed(i) = {}
       THEN /\ store' = store
            /\ last' = [StoreDone(i, op, key, DbError) EXCEPT !.stmt = FALSE]
       ELSE \E n \in addressed(i) :
              /\ \E t \in rows[n] : store' = [store EXCEPT ![n] = t]
              /\ last' = StoreDone(i, op, key, result[n])
  /\ UNCHANGED <<tableNames, faulted, inits, cfg, clock, table, dbState, isClosed, checkInterval,
                 timeoutId, timestamp, immediates, microQ, zlibQ, written, recent,
                 dirty, nticks>>

\* getStatement.get({key, now: now()}) and cbor.decode of an uncompressed row
StoreGet(i, key) ==
  Run(i, "get", key,
      [n \in addressed(i) |-> {getStatement(store[n], key, now).table}],
      [n \in addressed(i) |->
         LET res == getStatement(store[n], key, now).res
         IN IF res = NULL THEN Undefined ELSE cborDecode(res[1].value)])

\* setStatement.run({key, value, expires, compressed: 0, now: now()})
StoreSet(i, key, v, ttlMs) ==
  LET ttl == EffectiveTtl(ttlMs)
      expires == IF ttl # NULL THEN Some(now + ttl[1]) ELSE NULL
  IN Run(i, "set", key,
         [n \in addressed(i) |->
            {setStatement(store[n], key, cborEncode(v), expires, now, 0)}],
         [n \in addressed(i) |-> "ok"])

\* deleteStatement.run({key})
StoreDelete(i, key) ==
  Run(i, "delete", key,
      [n \in addressed(i) |-> {deleteStatement(store[n], key)}],
      [n \in addressed(i) |-> "ok"])

\* clearStatement.run({})
StoreClear(i) ==
  Run(i, "clear", "",
      [n \in addressed(i) |-> {clearStatement(store[n])}],
      [n \in addressed(i) |-> "ok"])

\* cleanupExpiredStatement.run({now: now()}), then cleanupLruStatement.run({maxItems})
StoreSweep(i) ==
  Run(i, "sweep", "",
      [n \in addressed(i) |-> sweepCycle(store[n], now, cfg.maxItems)],
      [n \in addressed(i) |-> "ok"])

\* the key that both instances use, and the value that each of them sets
StoreKeys == {"a"}
StoreValue == [i \in Instances |-> IF i = 1 THEN "s" ELSE "z"]

NextStore ==
  \/ \E i \in Instances, k \in StoreKeys : Call(StoreGet(i, k))
  \/ \E i \in Instances, k \in StoreKeys, t \in Ttls :
       Call(StoreSet(i, k, StoreValue[i], t))
  \/ \E i \in Instances, k \in StoreKeys : Call(StoreDelete(i, k))
  \/ \E i \in Instances : Call(StoreClear(i))
  \/ \E i \in Instances : Call(StoreSweep(i))
  \/ \E d \in Steps : Advance(d)

SpecStore == InitStore /\ [][NextStore]_vars

\* ------------------------------------------------------------------ claims
Threw(result) == result \in {ClosedError, DbError, InitError}

\* the state right after a get executed its statement
GetRan == last.op \in {"get", "getting"} /\ last.stmt

\* a row that get treats as expired at time n
Expired(row, n) == row.expires # NULL /\ row.expires[1] <= n

\* C1: a get that returns, of a key whose row was written by set(k, v) and has not
\* been replaced, deleted, cleared, swept or expired since, returns v, whatever the
\* compression of the row and whatever happened to the other keys.
C1_RoundTrip ==
  (last.op = "get" /\ last.want \in Values /\ ~Threw(last.result))
    => last.result = last.want

\* a compressed row of "a" was read back while "b" is in the table
C1_Witness ==
  /\ last.op = "get" /\ last.key = "a" /\ last.result = "z"
  /\ "a" \in DOMAIN table /\ table["a"].compressed = 1
  /\ "b" \in DOMAIN table

\* C2: a get never returns a value for a row whose expiry is at or before the time
\* of the get, swept or not, and it does return the row of a key set without TTL.
C2_Expiry ==
  (GetRan /\ last.key \in DOMAIN last.pre) =>
    LET row == last.pre[last.key]
    IN /\ Expired(row, clock) => (last.op = "get" /\ last.result = Undefined)
       /\ row.expires = NULL => last.result # Undefined

\* a get at the very millisecond of the expiry found the row still stored
C2_Witness ==
  /\ GetRan /\ last.key \in DOMAIN last.pre
  /\ last.pre[last.key].expires = Some(clock)
  /\ last.result = Undefined
  /\ \E k \in DOMAIN table : table[k].expires = NULL

Capacity == cfg.maxItems[1]

\* the state right after a sweep executed its statements
SweepRan == last.op = "sweep" /\ last.stmt

\* C3: with maxItems = N, the table holds at most N rows right after a sweep, and
\* it holds more than N rows only when a set was applied after the latest sweep.
C3_CapacityAfterSweep ==
  cfg.maxItems # NULL =>
    /\ SweepRan => Cardinality(DOMAIN table) <= Capacity
    /\ Cardinality(DOMAIN table) > Capacity => dirty

\* a sweep found more than N rows
C3_Witness ==
  /\ cfg.maxItems # NULL /\ SweepRan
  /\ Cardinality(DOMAIN last.pre) > Capacity
  /\ Cardinality(DOMAIN table) = Capacity

\* the place of key k in the order of use
Place(order, k) == CHOOSE i \in 1..Len(order) : order[i] = k

\* the rows a sweep removed, and of these the ones it removed for capacity
Removed == (DOMAIN last.pre) \ (DOMAIN table)
Evicted == {d \in Removed : ~(last.pre[d].expires # NULL /\ last.pre[d].expires[1] < clock)}

\* C4 as claimed: a key read or written later than all but fewer than N other
\* keys survives the sweep unless it has expired.
C4_RecentlyUsedSurvives ==
  (cfg.maxItems # NULL /\ SweepRan) =>
    \A k \in DOMAIN last.pre :
      ( /\ ~Expired(last.pre[k], clock)
        /\ Cardinality({j \in (DOMAIN last.pre) \ {k} :
             Place(last.order, j) > Place(last.order, k)}) < Capacity )
      => k \in DOMAIN table

\* C4: a key whose lastAccess is greater than that of all but fewer than N other
\* rows survives the sweep unless it has expired, and every row evicted for
\* capacity has a lastAccess no greater than that of any row kept.
C4_LruRetention ==
  (cfg.maxItems # NULL /\ SweepRan) =>
    /\ \A k \in DOMAIN last.pre :
         ( /\ ~Expired(last.pre[k], clock)
           /\ Cardinality({j \in (DOMAIN last.pre) \ {k} :
                last.pre[j].lastAccess >= last.pre[k].lastAccess}) < Capacity )
         => k \in DOMAIN table
    /\ \A d \in Evicted : \A k \in DOMAIN table :
         last.pre[k].lastAccess >= last.pre[d].lastAccess

\* a sweep evicted the row of the older lastAccess
C4_Witness ==
  /\ cfg.maxItems # NULL /\ SweepRan
  /\ \E d \in Evicted : \E k \in DOMAIN table :
       last.pre[k].lastAccess > last.pre[d].lastAccess

\* the table holds more rows than the capacity of an open cache
OverCapacity ==
  cfg.maxItems # NULL /\ ~isClosed /\ Cardinality(DOMAIN table) > Capacity

\* C5 as claimed: whenever the table of an open cache holds more than N rows, a
\* sweep eventually executes and leaves at most N rows, whatever the sets.
C5_EventuallyEnforced ==
  OverCapacity ~> (SweepRan /\ Cardinality(DOMAIN table) <= Capacity)

\* a step in which the caller called get, set, delete or clear
CalledNotClose ==
  /\ ncalls' = ncalls + 1
  /\ ~(Len(microQ') = Len(microQ) + 1 /\ microQ'[Len(microQ')].op = "close")

\* C6: once close() has completed, a call of get, set, delete or clear throws the
\* closed-cache error, executes no statement and leaves nothing behind to run.
C6_ClosedGuard ==
  [][(isClosed /\ CalledNotClose) =>
       /\ last'.op \in {"get", "set", "delete", "clear"}
       /\ last'.result = ClosedError
       /\ ~last'.stmt
       /\ <<table, microQ, zlibQ, immediates>>' = <<table, microQ, zlibQ, immediates>>]_vars

\* a call on a closed cache was refused
C6_Witness ==
  /\ isClosed /\ dbState = "closed"
  /\ last.result = ClosedError
  /\ DOMAIN table # {}

\* C7 as claimed: under defaultTtlMs = D, a row set without ttlMs expires D ms
\* after the set, and a row set with ttlMs expires ttlMs after the set.
C7_DefaultTtl ==
  cfg.defaultTtlMs # NULL =>
    \A k \in DOMAIN table :
      written[k] # NULL =>
        LET w == written[k][1]
            ttl == IF w.ttlMs # NULL THEN w.ttlMs[1] ELSE cfg.defaultTtlMs[1]
        IN table[k].expires = Some(w.at + ttl)

\* the state right after a set executed its statement
SetRan == last.op = "set" /\ last.stmt

\* the row set(k, v, {ttlMs}) called at time `at` writes at time n
RowOf(w, n) ==
  { [value |-> buf, expires |-> w.expires, lastAccess |-> n, compressed |-> c] :
      <<buf, c>> \in { <<cborEncode(w.v), 0>>, <<compress(cborEncode(w.v)), 1>> } }

\* C8: a set replaces the whole row: value, expiry, compressed flag and lastAccess
\* are those of the new call (the expiry NULL when the call gave no ttlMs), and
\* every other row is as it was.
C8_SetReplaces ==
  SetRan =>
    /\ DOMAIN table = (DOMAIN last.pre) \cup {last.key}
    /\ table[last.key] \in RowOf(written[last.key][1], clock)
    /\ \A j \in (DOMAIN table) \ {last.key} : table[j] = last.pre[j]

\* a set without ttlMs replaced a row that had an expiry
C8_Witness ==
  /\ SetRan
  /\ last.key \in DOMAIN last.pre
  /\ last.pre[last.key].expires # NULL
  /\ table[last.key].expires = NULL
  /\ table[last.key].lastAccess > last.pre[last.key].lastAccess

\* C9: a get at time t returns the stored value and sets lastAccess = t when the
\* row exists with a NULL expiry or one greater than t; otherwise it returns
\* undefined and changes nothing. No other row or field changes either way.
C9_GetHitMiss ==
  GetRan =>
    LET k == last.key
        hit == k \in DOMAIN last.pre /\ ~Expired(last.pre[k], clock)
    IN IF hit
         THEN /\ table = [last.pre EXCEPT ![k].lastAccess = clock]
              /\ last.op = "get" => last.result = written[k][1].v
              /\ last.op = "getting" => last.pre[k].compressed = 1
         ELSE /\ table = last.pre
              /\ last.op = "get"
              /\ last.result = Undefined

\* a get moved the lastAccess of its row and of no other
C9_Witness ==
  /\ GetRan /\ last.key \in DOMAIN last.pre
  /\ last.result \in Values
  /\ table[last.key].lastAccess > last.pre[last.key].lastAccess
  /\ \E j \in (DOMAIN table) \ {last.key} : table[j].lastAccess < clock

\* the state right after a delete executed its statement
DeleteRan == last.op = "delete" /\ last.stmt

\* C10: delete(k) removes row k and nothing else; a row comes into being only by
\* a set of its key, and a get of a key without a row returns undefined.
C10_DeleteExactly ==
  /\ DeleteRan => table = Without(last.pre, {last.key})
  /\ (last.op # "none" /\ ~SetRan) => DOMAIN table \subseteq DOMAIN last.pre
  /\ SetRan => (DOMAIN table) \ (DOMAIN last.pre) \subseteq {last.key}
  /\ (GetRan /\ last.key \notin DOMAIN last.pre) => last.result = Undefined

\* a delete removed one of two rows
C10_Witness ==
  /\ DeleteRan
  /\ last.key \in DOMAIN last.pre
  /\ DOMAIN table # {}

\* the state right after a clear executed its statement
ClearRan == last.op = "clear" /\ last.stmt

\* C11: clear() leaves the table without any row, expired or not; a key without a
\* row gets one only by a set of that key, and until then get returns undefined.
C11_ClearAll ==
  /\ ClearRan => DOMAIN table = {}
  /\ last.op # "none" =>
       \A k \in (DOMAIN table) \ (DOMAIN last.pre) : SetRan /\ last.key = k
  /\ (GetRan /\ last.key \notin DOMAIN last.pre) =>
       (last.op = "get" /\ last.result = Undefined /\ table = last.pre)

\* a clear removed an expired row and a row that does not expire
C11_Witness ==
  /\ ClearRan
  /\ \E k \in DOMAIN last.pre : Expired(last.pre[k], clock)
  /\ \E k \in DOMAIN last.pre : last.pre[k].expires = NULL
  /\ table = <<>>

Reopened == last.op = "open"

\* C13: a get gunzips a row exactly when the row's compressed flag is set, whatever
\* the compress setting of the instance that reads it; the row comes back as the
\* value that was set, and constructing an instance with another setting leaves
\* the value and the flag of every row as they were.
C13_DecodeByRowFlag ==
  /\ (GetRan /\ last.key \in DOMAIN last.pre /\ ~Expired(last.pre[last.key], clock)) =>
       /\ (last.op = "getting") <=> (last.pre[last.key].compressed = 1)
       /\ (last.op = "get") <=> (last.pre[last.key].compressed = 0)
  /\ (last.op = "get" /\ ~last.stmt /\ last.want \in Values /\ ~Threw(last.result)) =>
       last.result = last.want
  /\ Reopened =>
       /\ DOMAIN table = DOMAIN last.pre
       /\ \A k \in DOMAIN table :
            /\ table[k].compressed = last.pre[k].compressed
            /\ table[k].value = last.pre[k].value

\* an instance that does not compress returned a row that an instance that
\* compresses had written gzipped
C13_Witness ==
  /\ last.op = "get" /\ ~last.stmt /\ last.result = "z"
  /\ cfg.compress = NULL
  /\ written[last.key] # NULL /\ written[last.key][1].compress = NULL
  /\ table[last.key].compressed = 1

\* C14: a new instance on the same database file and table finds every row that
\* was there when the previous instance closed, with its value, expiry, compressed
\* flag and lastAccess; initialization succeeds and the instance is open.
C14_ReopenKeepsRows ==
  /\ Reopened => (table = last.pre /\ dbState = "open" /\ ~isClosed)
  /\ (isClosed /\ last.op # "none") => table = last.pre

\* an instance was constructed on a file holding a gzipped row and a row with an
\* expiry
C14_Witness ==
  /\ Reopened
  /\ \E k \in DOMAIN table : table[k].compressed = 1
  /\ \E k \in DOMAIN table : table[k].expires # NULL

\* the tables of the database that go by the cacheTableName of instance i
TableOf(i) == {n \in DOMAIN store : foldCase(n) = foldCase(tableNames[i])}

\* the state right after a statement of an instance on the shared database
StoreRan == last.op # "none"

\* the latest statement left the tables of the other instances as they were, and a
\* get returned nothing but what its own instance had set
Isolated ==
  StoreRan =>
    /\ \A j \in Instances \ {last.by} : \A n \in TableOf(j) : store[n] = last.pre[n]
    /\ last.op = "get" => last.result \in {Undefined, StoreValue[last.by]}

\* C15 as claimed: two instances on one database whose table names are different
\* change no row of one another and no result of one another's get.
C15_DifferentNamesIsolated ==
  tableNames[1] # tableNames[2] => Isolated

\* C15: two instances on one database whose table names differ by more than the
\* case of ASCII letters change no row of one another and no result of one
\* another's get, whatever statement (get, set, delete, clear, sweep) either runs.
C15_TableIsolation ==
  foldCase(tableNames[1]) # foldCase(tableNames[2]) => Isolated

\* one instance deleted a key that the other one still has
C15_Witness ==
  /\ foldCase(tableNames[1]) # foldCase(tableNames[2])
  /\ StoreRan /\ last.op = "delete" /\ last.stmt
  /\ \E n \in TableOf(last.by) : last.key \in DOMAIN last.pre[n] /\ last.key \notin DOMAIN store[n]
  /\ \E j \in Instances \ {last.by} : \E n \in TableOf(j) :
       /\ last.key \in DOMAIN store[n]
       /\ cborDecode(store[n][last.key].value) = StoreValue[j]

\* C17: the identifier in the statements of an instance with table name s is s
\* between double quotes with every double quote of s doubled; SQLite reads exactly
\* s back from it, the table of that name is created, and every statement of the
\* instance runs on that table and on no other.
C17_IdentifierQuoting ==
  \A i \in Instances :
    LET s == tableNames[i]
        q == escapeIdentifier(s)
    IN /\ q[1] = Quote /\ q[Len(q)] = Quote
       /\ Len(q) = Len(s) + 2 + Cardinality({j \in 1..Len(s) : s[j] = Quote})
       /\ parsedTableName(q) = Some(s)
       /\ TableOf(i) # {}
       /\ (s \in DOMAIN store \/ foldCase(tableNames[1]) = foldCase(tableNames[2]))
       /\ (StoreRan /\ last.by = i) =>
            /\ last.stmt
            /\ \A n \in (DOMAIN store) \ TableOf(i) : store[n] = last.pre[n]
            /\ last.op = "set" =>
                 \E n \in TableOf(i) :
                   /\ last.key \in DOMAIN store[n]
                   /\ cborDecode(store[n][last.key].value) = StoreValue[i]
            /\ last.op = "delete" => \A n \in TableOf(i) : last.key \notin DOMAIN store[n]

\* an instance whose table name holds a double quote read back what it had set,
\* next to an instance whose table name is the same but for the quote
C17_Witness ==
  /\ StoreRan /\ last.op = "get" /\ last.result = StoreValue[last.by]
  /\ \E j \in 1..Len(tableNames[last.by]) : tableNames[last.by][j] = Quote
  /\ tableNames[last.by] \in DOMAIN store
  /\ \E j \in Instances : tableNames[j] = <<"c">>


\* a row that the TTL sweep at time n does not select: no expiry, or one not yet past
Unexpired(row, n) == row.expires = NULL \/ row.expires[1] >= n

\* C16: when maxItems is not configured, or the table holds at most maxItems rows,
\* a sweep removes no unexpired row: every row whose expiry is null or not yet
\* past is in the table after the sweep with all its fields unchanged.
C16_NoEvictionUnderBound ==
  (SweepRan /\ (cfg.maxItems = NULL \/ Cardinality(DOMAIN last.pre) <= Capacity)) =>
    \A k \in DOMAIN last.pre :
      Unexpired(last.pre[k], clock) => (k \in DOMAIN table /\ table[k] = last.pre[k])

\* a sweep with a bound found the table at the bound, and the row, whose expiry
\* is the very time of the sweep, stayed as it was
C16_Witness ==
  /\ SweepRan /\ cfg.maxItems # NULL
  /\ Cardinality(DOMAIN last.pre) = Capacity
  /\ \E k \in DOMAIN last.pre :
       /\ last.pre[k].expires = Some(clock)
       /\ k \in DOMAIN table /\ table[k] = last.pre[k]


\* the rows of t that the TTL sweep at time n selects
Overdue(t, n) == {k \in DOMAIN t : t[k].expires # NULL /\ t[k].expires[1] < n}

\* C18: the TTL sweep at time t deletes exactly the rows whose expiry is non-null
\* and strictly less than t. No such row is left after a sweep, and a sweep
\* without a capacity bound leaves every other row, the rows whose expiry equals
\* t among them, as it was; a get at time t of a row whose expiry equals t
\* reports absent all the same.
C18_TtlSweep ==
  /\ SweepRan =>
       /\ Overdue(last.pre, clock) \cap DOMAIN table = {}
       /\ cfg.maxItems = NULL => table = Without(last.pre, Overdue(last.pre, clock))
  /\ (GetRan /\ last.key \in DOMAIN last.pre /\ last.pre[last.key].expires = Some(clock))
       => (last.op = "get" /\ last.result = Undefined)

\* a sweep without a capacity bound ran at the very millisecond of a row's expiry
\* and left that row and a row without expiry in the table
C18_Witness ==
  /\ SweepRan /\ cfg.maxItems = NULL
  /\ \E k \in DOMAIN table : table[k].expires = Some(clock)
  /\ \E k \in DOMAIN table : table[k].expires = NULL
  /\ table = last.pre


\* the table the LRU sweep of the latest sweep cycle ran on
LruInput == Without(last.pre, Overdue(last.pre, clock))

\* C19: the LRU sweep with bound N on a table of M rows leaves exactly min(M, N)
\* rows, each as it was, and every row it keeps has a lastAccess greater than or
\* equal to that of every row it deletes, over all the rows of the table.
C19_LruSweep ==
  (SweepRan /\ cfg.maxItems # NULL) =>
    LET t == LruInput
        M == Cardinality(DOMAIN t)
    IN /\ Cardinality(DOMAIN table) = (IF M < Capacity THEN M ELSE Capacity)
       /\ DOMAIN table \subseteq DOMAIN t
       /\ \A k \in DOMAIN table : table[k] = t[k]
       /\ \A k \in DOMAIN table : \A d \in (DOMAIN t) \ (DOMAIN table) :
            t[k].lastAccess >= t[d].lastAccess

\* the LRU sweep ran on more rows than the bound and deleted a row that was used
\* strictly before the row it kept
C19_Witness ==
  /\ SweepRan /\ cfg.maxItems # NULL
  /\ Cardinality(DOMAIN LruInput) > Capacity
  /\ \E k \in DOMAIN table : \E d \in (DOMAIN LruInput) \ (DOMAIN table) :
       LruInput[k].lastAccess > LruInput[d].lastAccess

\* C20: in one sweep cycle the TTL sweep runs before the LRU sweep, so rows whose
\* expiry is before now take no place in the LRU step: when the table holds more
\* than maxItems rows and at most maxItems of them are not expired, the cycle
\* removes the expired rows and none of the others.
C20_TtlBeforeLru ==
  ( /\ SweepRan /\ cfg.maxItems # NULL
    /\ Cardinality(DOMAIN last.pre) > Capacity
    /\ Cardinality(DOMAIN LruInput) <= Capacity )
  => table = LruInput

\* a sweep found more rows than the bound, one of them expired and used no
\* earlier than the row without expiry, and kept the row without expiry
C20_Witness ==
  /\ SweepRan /\ cfg.maxItems # NULL
  /\ Cardinality(DOMAIN last.pre) > Capacity
  /\ \E k \in DOMAIN table : \E d \in Overdue(last.pre, clock) :
       /\ table[k].expires = NULL
       /\ last.pre[d].lastAccess >= last.pre[k].lastAccess


\* C21: initSqliteCache runs exactly once for an instance, however many operations
\* are called and however they interleave; a storage statement executes only on a
\* database that this one initialization opened, and the table changes only in
\* the step of an operation that had been waiting on `await this.db`.
C21_InitGate ==
  /\ [](inits = 1 /\ (last.stmt => dbState = "open"))
  /\ [][table' # table => (microQ # <<>> /\ microQ' = Tail(microQ))]_vars

\* an operation executed its statement while another one, called before that, was
\* still waiting on the same initialization
C21_Witness ==
  /\ last.stmt /\ last.op \in {"get", "set", "delete", "clear", "sweep"}
  /\ microQ # <<>>
  /\ inits = 1


\* C22: when initialization failed, every get, set, delete and clear, whether
\* called first or later, throws the error of that initialization, and no
\* storage statement executes: the instance never has a row.
C22_InitFailureShared ==
  dbState = "failed" =>
    /\ ~last.stmt
    /\ table = <<>>
    /\ last.op \in {"get", "set", "delete", "clear"} => last.result = InitError

\* after a failed initialization a set was rejected with its error while a later
\* call was still waiting on it
C22_Witness ==
  /\ dbState = "failed"
  /\ last.op = "set" /\ last.result = InitError
  /\ microQ # <<>> /\ Head(microQ).op \in {"get", "delete", "clear"}


\* C23 as claimed: when close() has completed, the interval is cleared, the
\* connection is closed, the closed flag is set, and neither a debounce timer nor
\* a sweep request (a setImmediate callback, a sweep waiting on this.db) of the
\* instance is pending.
C23_CloseEffects ==
  (last.op = "close" /\ last.result = "ok") =>
    /\ checkInterval = NULL
    /\ dbState = "closed"
    /\ isClosed
    /\ timeoutId = NULL
    /\ immediates = 0
    /\ \A i \in 1..Len(microQ) : microQ[i].op # "sweep"


\* C24: a sweep called after close() has completed, by a timer or by the
\* setImmediate callback of a set, returns at once: it does not go on to await
\* this.db, no sweep is ever waiting on a closed instance, and a sweep executes
\* its statements only on an instance that is not closed.
C24_SkippedWhenClosed ==
  /\ (last.op = "request" /\ isClosed) => last.result \in {"closed", "coalesced"}
  /\ isClosed => \A i \in 1..Len(microQ) : microQ[i].op # "sweep"
  /\ SweepRan => ~isClosed

\* the setImmediate callback of a set ran after close() had completed, found no
\* debounce timer pending, and the sweep returned at its closed check
C24_Witness ==
  /\ isClosed
  /\ last.op = "request" /\ last.key = "immediate" /\ last.result = "closed"
  /\ microQ = <<>>


\* C25: an operation that passed the closed check before close() completed either
\* executed its statement before db.close() or throws: once close() has
\* completed no step changes a row, no statement executes, and set, delete and
\* clear that finish then finish with an error; close() itself completes when
\* its turn comes, whatever is still in flight.
C25_InFlightAcrossClose ==
  /\ [][isClosed => table' = table]_vars
  /\ [](isClosed =>
          /\ ~last.stmt
          /\ last.op \in {"set", "delete", "clear"} => Threw(last.result)
          /\ last.op = "sweep" => last.result = "caught")
  /\ [](last.op = "close" => (last.result = "ok" /\ isClosed /\ dbState = "closed"))
  /\ []((microQ # <<>> /\ Head(microQ).op = "close") => ENABLED DbClose)

\* a set that had passed the closed check came to its statement after close() had
\* completed and threw, and the table is as close() left it
C25_Witness ==
  /\ isClosed
  /\ last.op = "set" /\ last.result = DbError
  /\ table = last.pre


\* the latest step finished a get, set, delete or clear
Foreground == last.op \in {"get", "set", "delete", "clear"}

\* C26: a sweep statement that throws is caught in the sweep. The step leaves the
\* interval, the debounce timer, the pending setImmediate callbacks, the flags
\* and the calls in flight as they were; no get, set, delete or clear of an open
\* instance throws, and a get still returns what the applied writes say; while
\* the instance is open its interval stays armed.
C26_SweepFailureContained ==
  /\ [][(last'.op = "sweep" /\ last'.result = "caught") =>
          /\ UNCHANGED <<checkInterval, timeoutId, timestamp, immediates, isClosed,
                         dbState, zlibQ>>
          /\ microQ' = Tail(microQ)]_vars
  /\ []((Foreground /\ ~isClosed) => ~Threw(last.result))
  /\ []((last.op = "get" /\ last.want \in Values /\ ~Threw(last.result))
          => last.result = last.want)
  /\ []((~isClosed /\ \A i \in 1..Len(microQ) : microQ[i].op # "close")
          => checkInterval # NULL)

\* after a sweep statement threw, a later sweep executed its statements
C26_Witness ==
  /\ faulted
  /\ SweepRan /\ last.result = "ok"


\* C27 as claimed: a sweep request on an open instance that comes when no request
\* was made in the 100 ms before it starts a sweep at once, and a request that
\* comes within 100 ms of the one before it starts nothing and leaves no sweep
\* queued for later.
C27_LeadingEdge ==
  (last.op = "request" /\ ~isClosed) =>
    /\ last.quiet => last.result = "started"
    /\ ~last.quiet => (last.result = "coalesced"
                        /\ \A i \in 1..Len(microQ) : microQ[i].op # "sweep")


\* close() has been called on the instance
CloseCalled == isClosed \/ \E i \in 1..Len(microQ) : microQ[i].op = "close"

\* the latest step was the interval calling the sweep
IntervalRequest == last.op = "request" /\ last.key = "interval"

\* C28: the interval is armed from the construction until close() is called and
\* never after; it calls the sweep only when it is due, and is then due again
\* one period later; calling set and the write of a set leave it as it is; and
\* while it is armed it calls the sweep again and again, whatever the caller does.
C28_PeriodicTrigger ==
  /\ [](checkInterval # NULL <=> ~CloseCalled)
  /\ [](checkInterval # NULL => checkInterval[1] <= now + CHECK_INTERVAL)
  /\ [][IntervalRequest' =>
          /\ checkInterval # NULL /\ checkInterval[1] <= now
          /\ checkInterval' = Some(now + CHECK_INTERVAL)]_vars
  /\ [][(\/ last'.op = "set"
         \/ Len(microQ') > Len(microQ) /\ microQ'[Len(microQ')].op = "set")
          => checkInterval' = checkInterval]_vars
  /\ (checkInterval # NULL) ~> (IntervalRequest \/ CloseCalled)
  /\ [](CloseCalled => [](~IntervalRequest))

\* the interval called the sweep while the requests of sets kept the debounce
\* timer pending
C28_Witness ==
  /\ IntervalRequest
  /\ last.result = "coalesced"
  /\ ~CloseCalled


\* the latest step finished a set, with its write or with an error
SetWrote == last.op = "set" /\ last.result = "ok"
SetFailed == last.op = "set" /\ last.result # "ok"

\* C29: the step in which a set writes its row schedules exactly one call of the
\* sweep, after the write; a set that throws (closed instance, closed or failed
\* database) writes nothing and schedules none; nothing else schedules one, so a
\* scheduled call runs only after the write of its set.
C29_WriteTrigger ==
  /\ [][SetWrote' => (last'.stmt /\ last'.key \in DOMAIN table'
                       /\ immediates' = immediates + 1)]_vars
  /\ [][SetFailed' => (~last'.stmt /\ table' = table
                        /\ immediates' = immediates)]_vars
  /\ [][immediates' > immediates => SetWrote']_vars
  /\ [][(last'.op = "request" /\ last'.key = "immediate")
          => immediates' = immediates - 1]_vars
  /\ [](immediates >= 0)

\* two sets have written and the call of the sweep of each is pending
C29_Witness ==
  /\ SetWrote
  /\ immediates = 2


\* the sets on key k that have been called and have not come to their statement
PendingSets(k) ==
  { microQ[i] : i \in { j \in 1..Len(microQ) :
                          microQ[j].op = "set" /\ microQ[j].key = k } }
  \cup
  { zlibQ[i] : i \in { j \in 1..Len(zlibQ) :
                         zlibQ[j].op = "gzip" /\ zlibQ[j].key = k } }

\* C30: every row of the table is, in all its fields, the row that one set wrote
\* (value, expiry and compressed flag of that one call, lastAccess its time of
\* writing or that of a later get), also while other sets on the key are in
\* flight; a set that throws leaves the whole table as it was, and a set that
\* writes leaves every other row as it was.
C30_NoPartialWrites ==
  /\ \A k \in DOMAIN table :
       /\ written[k] # NULL
       /\ [table[k] EXCEPT !.lastAccess = written[k][1].applied]
            \in RowOf(written[k][1], written[k][1].applied)
       /\ table[k].lastAccess >= written[k][1].applied
  /\ SetFailed => table = last.pre
  /\ SetRan => \A j \in (DOMAIN table) \ {last.key} :
                 j \in DOMAIN last.pre /\ table[j] = last.pre[j]

\* of two sets on one key with different values that were in flight together, one
\* has replaced the row while the other has yet to write
C30_Witness ==
  /\ SetRan
  /\ last.key \in DOMAIN last.pre
  /\ table[last.key].value # last.pre[last.key].value
  /\ \E c \in PendingSets(last.key) :
       /\ c.want # written[last.key][1].v
       /\ c.at <= written[last.key][1].applied


\* C31 as claimed: close() called on an instance whose closed flag is set throws
\* the usage error at its closed check: it does not go on to await this.db, and
\* a close() that runs db.close() was never called on a closed instance.
C31_CloseGuarded ==
  [][isClosed =>
       /\ microQ' # Append(microQ, Plain("close", ""))
       /\ last'.op = "close" => last'.result = ClosedError]_vars


\* C32 as claimed: after initialization the table of every instance has its own
\* index on key, on expires and on lastAccess, also when a cache table of another
\* name was initialized in the database before.
C32_PerTableIndexes ==
  \A i \in Instances : \A n \in TableOf(i) : \A c \in IndexColumns : Indexed(n, c)


C34_InvocationOrder ==
  [][\A k \in Keys :
       (/\ SetWrote' /\ last'.key = k
        /\ written[k] # NULL
        /\ written'[k][1].at < written[k][1].at)
       => written'[k][1].v = written[k][1].v]_vars


\* C35: whenever the closed flag is set, the interval has been cleared and the
\* connection has been closed; a close() that fails at `await this.db`, as after
\* a failed initialization, leaves the flag as it was, so the flag is never set
\* on an instance whose initialization failed.
C35_ClosedFlag ==
  /\ [](isClosed => checkInterval = NULL /\ dbState = "closed")
  /\ [](dbState = "failed" => ~isClosed)
  /\ [][last'.op = "close" /\ last'.result # "ok" => isClosed' = isClosed]_vars

\* close() has just set the flag while a set called before it is still waiting:
\* the interval is cleared and the connection closed
C35_Witness ==
  /\ last.op = "close" /\ last.result = "ok"
  /\ isClosed
  /\ checkInterval = NULL /\ dbState = "closed"
  /\ \E k \in Keys : PendingSets(k) # {}

=============================================================================
